---- MODULE Spec2Model ----
(***************************************************************************)
(* Typing tutor: the typing canvas (session controller and scorer) and the *)
(* application shell that owns history, key mastery, difficulty level and  *)
(* the lesson request.                                                     *)
(*                                                                         *)
(* Representation.                                                         *)
(*  - A string is a sequence of one-character strings.                     *)
(*  - startTime: 0 stands for null (the code tests `!startTime`, which     *)
(*    treats null and 0 alike); Date.now() is always positive.             *)
(*  - errorRate and accuracy are kept in hundredths: 313 is the number     *)
(*    3.13 that parseFloat(x.toFixed(2)) yields.  The quotients are        *)
(*    computed exactly; this agrees with the IEEE-754 evaluation for every *)
(*    passage shorter than 160 characters (the halfway cases then have a   *)
(*    power-of-two denominator and are exact in binary).  The clock values *)
(*    are chosen so that no words-per-minute quotient is a halfway case.   *)
(*  - The popup and menu flags of the shell (isMessageOpen,                *)
(*    hasUnreadMessage, isLevelMenuOpen) are presentation only, are read   *)
(*    by no modelled guard, and are left out.                              *)
(*  - The StudyTimer keeps its seconds counter, target and config date;   *)
(*    the tick is enabled whenever App's isTimerRunning is set.  Dates are *)
(*    day numbers (today), 0 stands for no date, and the observer          *)
(*    tickedToday counts the ticks since the last date change.             *)
(*  - localStorage is one variable per item; -1 stands for an item that is *)
(*    not there.  JSON.stringify and JSON.parse are a tagged encoding and  *)
(*    its decoding.  A page load is one step: the state initialisers, the  *)
(*    effects that run on mount and the issue of the lesson request; the   *)
(*    confirmed progress reset is one step with the load that follows it.  *)
(*  - The 150 ms highlight timers are a count: their delays are equal, so  *)
(*    they fire in the order they were set.                                *)
(*                                                                         *)
(* Specifications: Spec (canvas and shell, first run), FairSpec (Spec with *)
(* lesson requests that settle), TimerSpec (Spec with the study tick),     *)
(* StartupSpec (a run that starts from a stored history), ScorerSpec and   *)
(* MasterySpec (the scorer and the mastery tracker on wider inputs),       *)
(* ShellSpec (Spec with theme button, page reload and progress reset),     *)
(* TimingSpec (Spec with a clock that tells elapsed times apart) and       *)
(* StudySpec (the study timer over several dates).                         *)
(***************************************************************************)
EXTENDS Integers, Sequences, FiniteSets, TLC

\* ------------------------------------------------------------------ bounds
\* longest value an input change event carries in Spec
MaxInput == 2
\* sessions completed in one run of Spec
MaxSessions == 1
\* key-highlight reversion timers pending at once
MaxTimers == 2
\* longest passage scored in ScorerSpec
MaxScoreLen == 32
\* longest passage typed in MasterySpec
MaxPassage == 2
\* seconds of study counted in TimerSpec and StudySpec
MaxElapsed == 2
\* calendar dates a run of StudySpec spans
MaxDay == 2

\* ------------------------------------------------------- program constants
MasteryUp == 2
MasteryDown == 5
MasteryMax == 100
CharsPerWord == 5
DefaultTargetMinutes == 30

\* ------------------------------------------------------------- vocabulary
Keys == {"f", "j"}
Null == 0
NoKey == ""
PEMULA == "PEMULA"
MENENGAH == "MENENGAH"
MAHIR == "MAHIR"
DifficultyLevel == {PEMULA, MENENGAH, MAHIR}
SIANG == "SIANG"
MALAM == "MALAM"
\* a date is the number of its day; 0 stands for no date (null)
NoDate == 0
\* localStorage.getItem of a key that is not set (null), for numeric items
Absent == -1
\* the durations the settings panel offers
Durations == {30, 45, 60}

\* values Date.now() takes in the model (ms); the wall clock may be set back
Clock == {1000, 61000}

Min(a, b) == IF a < b THEN a ELSE b
Max(a, b) == IF a > b THEN a ELSE b

\* all strings over S of length 0..n
StringsUpTo(S, n) == UNION {[1..k -> S] : k \in 0..n}

\* the first lesson: "ffff jjjj ffff jjjj fjfj jfjf ff jj fj jf fff jjj fjf jfj f j f j"
InitialLessonText ==
  <<"f","f","f","f"," ","j","j","j","j"," ","f","f","f","f"," ","j","j","j","j"," ",
    "f","j","f","j"," ","j","f","j","f"," ","f","f"," ","j","j"," ","f","j"," ","j","f"," ",
    "f","f","f"," ","j","j","j"," ","f","j","f"," ","j","f","j"," ","f"," ","j"," ","f"," ","j">>

\* ------------------------------------------------------------ pure helpers
\* String.prototype.toLowerCase on the characters the model uses
toLowerCase(c) == IF c = "F" THEN "f" ELSE IF c = "J" THEN "j" ELSE c

\* variant: no character is skipped
IsAnyChar(c) == TRUE

\* /[a-z0-9]/.test(c) on the characters the model uses
IsAlnumLower(c) == c \in {"f", "j", "k", "1"}

\* Math.round of the non-negative rational num/den (den > 0): halves go up
RoundDiv(num, den) == (2 * num + den) \div (2 * den)

\* parseFloat(x.toFixed(2)) of the rational num/den, in hundredths; num may be
\* any integer, den > 0.  toFixed picks the nearer hundredth and, when two are
\* equally near, the larger one.
ToFixed2(num, den) == (200 * num + den) \div (2 * den)

\* ------------------------------------------------------------------ scorer
\* variant: the loop runs over the typed text instead of the target
RECURSIVE CountErrorsOverTyped(_, _, _)
CountErrorsOverTyped(target, finalInput, i) ==
  IF i > Len(finalInput) THEN 0
  ELSE (IF i > Len(target) \/ finalInput[i] # target[i] THEN 1 ELSE 0)
         + CountErrorsOverTyped(target, finalInput, i + 1)

\* the loop of finishSession: positions i..Len(target) where the typed text
\* differs from the target (a position past the typed text reads undefined
\* and differs)
RECURSIVE CountErrors(_, _, _)
CountErrors(target, finalInput, i) ==
  IF i > Len(target) THEN 0
  ELSE (IF i > Len(finalInput) \/ finalInput[i] # target[i] THEN 1 ELSE 0)
         + CountErrors(target, finalInput, i + 1)

\* (endTime - (startTime || endTime)), in ms
DurationMs(start, endTime) == endTime - (IF start = Null THEN endTime ELSE start)

\* variant: Math.floor instead of Math.round
WpmFloor(len, start, endTime) ==
  LET ms == DurationMs(start, endTime)
  IN  IF ms > 0 THEN (len * 1000 * 60) \div (CharsPerWord * ms) ELSE 0

\* Math.round(durationMinutes > 0 ? words / durationMinutes : 0), with
\* words = len / 5 and durationMinutes = ms / 1000 / 60
Wpm(len, start, endTime) ==
  LET ms == DurationMs(start, endTime)
  IN  IF ms > 0 THEN RoundDiv(len * 1000 * 60, CharsPerWord * ms) ELSE 0

\* errorRate = (errors / target.length) * 100, stored with toFixed(2)
ErrorRate(errors, len) == ToFixed2(100 * errors, len)

\* accuracy = 100 - errorRate (the unrounded one), stored with toFixed(2)
Accuracy(errors, len) == ToFixed2(100 * len - 100 * errors, len)

\* variant: the error rate is taken over the typed length
ScoreResultPerTyped(target, finalInput, start, endTime) ==
  LET errors == CountErrors(target, finalInput, 1)
  IN  [ wpm             |-> Wpm(Len(finalInput), start, endTime),
        errorRate       |-> ErrorRate(errors, Len(finalInput)),
        accuracy        |-> Accuracy(errors, Len(finalInput)),
        actualTypedText |-> finalInput,
        timestamp       |-> endTime ]

\* the TypingResult handed to onComplete
ScoreResult(target, finalInput, start, endTime) ==
  LET errors == CountErrors(target, finalInput, 1)
  IN  [ wpm             |-> Wpm(Len(finalInput), start, endTime),
        errorRate       |-> ErrorRate(errors, Len(target)),
        accuracy        |-> Accuracy(errors, Len(target)),
        actualTypedText |-> finalInput,
        timestamp       |-> endTime ]

\* ----------------------------------------------------------------- mastery
\* newMastery[char] || 0
ScoreOf(m, c) == IF c \in DOMAIN m THEN m[c] ELSE 0

\* newMastery[char] = v
SetScore(m, c, v) == [k \in (DOMAIN m) \cup {c} |-> IF k = c THEN v ELSE m[k]]

\* variant: the scores are not clamped
RECURSIVE MasteryLoopUnclamped(_, _, _, _, _)
MasteryLoopUnclamped(m, target, typed, i, length) ==
  IF i > length THEN m
  ELSE LET char == toLowerCase(target[i])
           currentScore == ScoreOf(m, char)
           next == IF ~IsAlnumLower(char) THEN m
                   ELSE IF target[i] = typed[i]
                        THEN SetScore(m, char, currentScore + MasteryUp)
                        ELSE SetScore(m, char, currentScore - MasteryDown)
       IN  MasteryLoopUnclamped(next, target, typed, i + 1, length)

\* variant: the typed character is compared without regard to case
RECURSIVE MasteryLoopIgnoreCase(_, _, _, _, _)
MasteryLoopIgnoreCase(m, target, typed, i, length) ==
  IF i > length THEN m
  ELSE LET char == toLowerCase(target[i])
           currentScore == ScoreOf(m, char)
           next == IF ~IsAlnumLower(char) THEN m
                   ELSE IF char = toLowerCase(typed[i])
                        THEN SetScore(m, char, Min(MasteryMax, currentScore + MasteryUp))
                        ELSE SetScore(m, char, Max(0, currentScore - MasteryDown))
       IN  MasteryLoopIgnoreCase(next, target, typed, i + 1, length)

\* the loop of updateMastery from index i on
RECURSIVE MasteryLoop(_, _, _, _, _)
MasteryLoop(m, target, typed, i, length) ==
  IF i > length THEN m
  ELSE LET char == toLowerCase(target[i])
           currentScore == ScoreOf(m, char)
           next == IF ~IsAlnumLower(char) THEN m
                   ELSE IF target[i] = typed[i]
                        THEN SetScore(m, char, Min(MasteryMax, currentScore + MasteryUp))
                        ELSE SetScore(m, char, Max(0, currentScore - MasteryDown))
       IN  MasteryLoop(next, target, typed, i + 1, length)

updateMastery(m, target, typed) ==
  MasteryLoop(m, target, typed, 1, Min(Len(target), Len(typed)))

\* ------------------------------------------------------------------ lessons
NoLesson == [none |-> TRUE]
NoRequest == [kind |-> "none"]
TutorWelcome == "welcome"
TutorGenerated == "generated"
TutorApology == "apology"

\* generateInitialLesson; the 65-character drill is shortened to its first
\* two characters so that a session can be typed within the bounds
generateInitialLesson ==
  [ tutorMessage |-> TutorWelcome,
    lessonText   |-> SubSeq(InitialLessonText, 1, 2),
    criticalKeys |-> {"f", "j"},
    nextLevel    |-> PEMULA ]

\* variant: the fallback carries no passage
FallbackLessonBlank(currentLevel, targetText) ==
  [ tutorMessage |-> TutorApology,
    lessonText   |-> <<>>,
    criticalKeys |-> {},
    nextLevel    |-> currentLevel ]

\* the catch branch of generateAdaptiveLesson
FallbackLesson(currentLevel, targetText) ==
  [ tutorMessage |-> TutorApology,
    lessonText   |-> targetText,
    criticalKeys |-> {},
    nextLevel    |-> currentLevel ]

\* lessons the collaborator answers with in Spec (JSON.parse(response.text))
Responses ==
  { [ tutorMessage |-> TutorGenerated, lessonText |-> <<"j">>,
      criticalKeys |-> {"j"}, nextLevel |-> MENENGAH ],
    [ tutorMessage |-> TutorGenerated, lessonText |-> <<"f", "j">>,
      criticalKeys |-> {}, nextLevel |-> PEMULA ] }

\* -------------------------------------------------------------------- state
VARIABLES
  level,           \* App: difficulty level
  history,         \* App: sequence of TypingResult
  keyMastery,      \* App: key -> score
  lesson,          \* App: LessonData or NoLesson
  isLoading,       \* App
  activeKey,       \* App: highlighted key or NoKey
  isTimerRunning,  \* App
  request,         \* the lesson request in flight, or NoRequest
  pendingTimers,   \* number of setTimeout(() => setActiveKey(null), 150) pending
  input,           \* TypingCanvas: typed buffer
  startTime,       \* TypingCanvas: start timestamp or Null
  isFinished,      \* TypingCanvas
  mode,            \* App: theme
  storedLevel,     \* localStorage app_level
  storedHistory,   \* localStorage app_history (JSON text)
  storedMastery,   \* localStorage app_key_mastery (JSON text)
  elapsedSeconds,  \* StudyTimer: seconds studied today
  targetMinutes,   \* StudyTimer: daily target
  lastConfigDate,  \* StudyTimer: date of the last target change, or NoDate
  storedTarget,    \* localStorage study_timer_target, or Absent
  storedElapsed,   \* localStorage study_timer_elapsed, or Absent
  storedDate,      \* localStorage study_timer_date, or NoDate
  storedConfigDate,\* localStorage study_timer_config_date, or NoDate
  today,           \* the date getTodayDate() returns
  tickedToday,     \* observer: ticks counted since the date last changed
  now,             \* Date.now()
  last,            \* observer: the last canvas event and the callbacks it made
  attempt,         \* observer: what happened since the lesson load or manual reset
  lastTarget       \* observer: the passage of the latest completed session

appVars == <<level, history, keyMastery, lesson, isLoading, activeKey,
             isTimerRunning, request, pendingTimers>>
canvasVars == <<input, startTime, isFinished>>
timerVars == <<elapsedSeconds, targetMinutes, lastConfigDate>>
timerStore == <<storedTarget, storedElapsed, storedDate, storedConfigDate>>
studyVars == <<timerVars, timerStore, today, tickedToday>>
storageVars == <<storedLevel, storedHistory, storedMastery>>
obsVars == <<last, attempt, lastTarget>>
vars == <<appVars, mode, storageVars, canvasVars, studyVars, now, obsVars>>

\* JSON.stringify and JSON.parse on histories and mastery maps: finite
\* numbers, strings, arrays and plain objects come back as they went in
Stringify(v) == <<"json", v>>
Parse(text) == text[2]

\* variant: the history is not written after a change
PersistenceEffectsSkipHistory ==
  /\ storedLevel' = IF level' # level THEN level' ELSE storedLevel
  /\ storedHistory' = storedHistory
  /\ storedMastery' = IF keyMastery' # keyMastery THEN Stringify(keyMastery')
                                                  ELSE storedMastery

\* the persistence effects of App: each runs after a render in which its
\* dependency changed
PersistenceEffects ==
  /\ storedLevel' = IF level' # level THEN level' ELSE storedLevel
  /\ storedHistory' = IF history' # history THEN Stringify(history') ELSE storedHistory
  /\ storedMastery' = IF keyMastery' # keyMastery THEN Stringify(keyMastery')
                      ELSE storedMastery

\* the persistence effects on mount: all three run
Persisted ==
  /\ storedLevel = level
  /\ storedHistory = Stringify(history)
  /\ storedMastery = Stringify(keyMastery)

\* StudyTimer mounted on the first day with nothing stored: the load effect
\* finds no date, sets the counter to 0 and stores today and '0'
TimerFirstLoad ==
  /\ today = 1
  /\ elapsedSeconds = 0
  /\ targetMinutes = DefaultTargetMinutes
  /\ lastConfigDate = NoDate
  /\ storedTarget = Absent
  /\ storedElapsed = 0
  /\ storedDate = today
  /\ storedConfigDate = NoDate
  /\ tickedToday = 0

\* variant: the canvas stays rendered while the next lesson loads
CanvasAlwaysMounted == lesson # NoLesson

\* {lesson && !isLoading && <TypingCanvas .../>}
CanvasMounted == lesson # NoLesson /\ ~isLoading

FreshAttempt == [entered |-> FALSE, starts |-> 0, emits |-> 0, since |-> Null]

\* values an input change event carries in Spec
Vals == StringsUpTo(Keys, MaxInput)

Observed(kind, val, typingStart, charTyped, completed) ==
  [ kind |-> kind, val |-> val, typingStart |-> typingStart,
    charTyped |-> charTyped, completed |-> completed ]

\* ------------------------------------------------------------------- Init
\* first run with empty storage: useState initialisers of App and the
\* "Initialize Lesson" effect waiting for generateInitialLesson
Init ==
  /\ level = PEMULA
  /\ history = <<>>
  /\ keyMastery = [k \in {} |-> 0]
  /\ lesson = NoLesson
  /\ isLoading = TRUE
  /\ activeKey = NoKey
  /\ isTimerRunning = FALSE
  /\ request = [kind |-> "initial"]
  /\ pendingTimers = 0
  /\ input = <<>>
  /\ startTime = Null
  /\ isFinished = FALSE
  /\ mode = SIANG
  /\ Persisted
  /\ TimerFirstLoad
  /\ now \in Clock
  /\ last = [ kind |-> "none", val |-> <<>>, typingStart |-> FALSE,
              charTyped |-> NoKey, completed |-> FALSE ]
  /\ attempt = FreshAttempt
  /\ lastTarget = <<>>

\* ----------------------------------------------------------- TypingCanvas
\* what a render leaves in the canvas state: a canvas that (re)mounts starts
\* from its useState initialisers, a mounted canvas whose targetText changed
\* runs the reset effect, anything else keeps its state
CanvasRender ==
  IF CanvasMounted' /\ (~CanvasMounted \/ lesson'.lessonText # lesson.lessonText)
  THEN input' = <<>> /\ startTime' = Null /\ isFinished' = FALSE
  ELSE UNCHANGED canvasVars

\* variant: > instead of >=
CompletesStrict(val, targetText) == Len(val) > Len(targetText)

\* the completion check of handleInputChange
Completes(val, targetText) == Len(val) >= Len(targetText)

\* variant: the request carries the typed text in place of the passage
handleSessionCompleteSendsTyped(result) ==
  /\ isTimerRunning' = FALSE
  /\ isLoading' = TRUE
  /\ history' = Append(history, result)
  /\ keyMastery' = updateMastery(keyMastery, lesson.lessonText, result.actualTypedText)
  /\ request' = [ kind |-> "adaptive", origin |-> "complete",
                  currentLevel |-> level, lastResult |-> result,
                  targetText |-> result.actualTypedText ]

\* handleSessionComplete(result) up to its await: the state updates and the
\* call of generateAdaptiveLesson (lesson is not null while a canvas exists)
handleSessionComplete(result) ==
  /\ isTimerRunning' = FALSE
  /\ isLoading' = TRUE
  /\ history' = Append(history, result)
  /\ keyMastery' = updateMastery(keyMastery, lesson.lessonText, result.actualTypedText)
  /\ request' = [ kind |-> "adaptive", origin |-> "complete",
                  currentLevel |-> level, lastResult |-> result,
                  targetText |-> lesson.lessonText ]

\* variant: the first character of the value is taken
firstCharOf(val) == IF val = <<>> THEN NoKey ELSE val[1]

\* const lastChar = val.slice(-1): the empty string (falsy) for an empty value
lastCharOf(val) == IF val = <<>> THEN NoKey ELSE val[Len(val)]

\* handleInputChange past its first line, with e.target.value = val, run to
\* the end of the event: onTypingStart (handleTypingStart), onCharTyped
\* (handleCharTyped) and, through finishSession, onComplete are part of it.
\* finishSession reads the startTime of the render the handler was made in.
AcceptInput(val) ==
  LET targetText == lesson.lessonText
      starting   == startTime = Null /\ Len(val) = 1
      lastChar   == lastCharOf(val)
      completes  == Completes(val, targetText)
  IN
    \* TypingCanvas state
    /\ startTime' = IF starting THEN now ELSE startTime
    /\ input' = val
    /\ isFinished' = completes
    \* handleCharTyped
    /\ IF lastChar # NoKey
       THEN activeKey' = lastChar /\ pendingTimers' = pendingTimers + 1
       ELSE UNCHANGED <<activeKey, pendingTimers>>
    \* handleTypingStart, then finishSession
    /\ IF completes
       THEN handleSessionComplete(ScoreResult(targetText, val, startTime, now))
       ELSE /\ isTimerRunning' = (isTimerRunning \/ starting)
            /\ UNCHANGED <<isLoading, history, keyMastery, request>>
    /\ UNCHANGED <<level, lesson, mode, studyVars, now>>
    /\ last' = Observed("input", val, starting, lastChar, completes)
    /\ lastTarget' = IF completes THEN targetText ELSE lastTarget
    /\ attempt' = [ entered |-> attempt.entered \/ val # <<>>,
                    starts  |-> attempt.starts + (IF starting THEN 1 ELSE 0),
                    emits   |-> attempt.emits + (IF completes THEN 1 ELSE 0),
                    since   |-> IF attempt.since = Null /\ val # <<>>
                                THEN now ELSE attempt.since ]
    /\ PersistenceEffects

\* handleInputChange(e): if (isFinished) return
handleInputChange(val) ==
  IF isFinished
  THEN /\ last' = Observed("input", val, FALSE, NoKey, FALSE)
       /\ UNCHANGED <<appVars, canvasVars, mode, storageVars, studyVars, now, attempt, lastTarget>>
  ELSE AcceptInput(val)

\* variant: the input stays in the page while the next lesson loads and the
\* handler does not look at isFinished
InputChangeAnytime(val) ==
  /\ lesson # NoLesson
  /\ val # input
  /\ AcceptInput(val)

\* a change event of the hidden input: it exists while the canvas is mounted
\* and fires when the value differs from the one rendered
InputChange(val) ==
  /\ CanvasMounted
  /\ val # input
  /\ handleInputChange(val)

\* variant: the reset leaves the start timestamp in place
handleResetKeepsStart ==
  /\ CanvasMounted
  /\ input' = <<>>
  /\ UNCHANGED <<startTime, isFinished, appVars, mode, storageVars, studyVars, now, lastTarget>>
  /\ last' = Observed("reset", <<>>, FALSE, NoKey, FALSE)
  /\ attempt' = [attempt EXCEPT !.entered = FALSE, !.starts = 0, !.since = Null]

\* variant: the reset records the discarded attempt in the history
handleResetRecords ==
  /\ CanvasMounted
  /\ input' = <<>>
  /\ startTime' = Null
  /\ history' = Append(history, ScoreResult(lesson.lessonText, input, startTime, now))
  /\ UNCHANGED <<isFinished, level, keyMastery, lesson, isLoading, activeKey,
                 isTimerRunning, request, pendingTimers, mode, studyVars, now, lastTarget>>
  /\ last' = Observed("reset", <<>>, FALSE, NoKey, FALSE)
  /\ attempt' = [attempt EXCEPT !.entered = FALSE, !.starts = 0, !.since = Null]
  /\ PersistenceEffects

\* handleReset: click on the reset button of the canvas
handleReset ==
  /\ CanvasMounted
  /\ input' = <<>>
  /\ startTime' = Null
  /\ UNCHANGED <<isFinished, appVars, mode, storageVars, studyVars, now, lastTarget>>
  /\ last' = Observed("reset", <<>>, FALSE, NoKey, FALSE)
  /\ attempt' = [attempt EXCEPT !.entered = FALSE, !.starts = 0, !.since = Null]

\* ------------------------------------------------------------------- App
\* "Initialize Lesson" effect, history empty: generateInitialLesson resolves
InitialLessonLoaded ==
  /\ request.kind = "initial"
  /\ lesson' = generateInitialLesson
  /\ isLoading' = FALSE
  /\ request' = NoRequest
  /\ CanvasRender
  /\ UNCHANGED <<level, history, keyMastery, activeKey, isTimerRunning,
                 pendingTimers, mode, storageVars, studyVars, now, lastTarget>>
  /\ last' = Observed("lesson", <<>>, FALSE, NoKey, FALSE)
  /\ attempt' = FreshAttempt

\* handleSessionComplete after its await, given the lesson that
\* generateAdaptiveLesson returned; the caller records which way it ended
ApplyLesson(nextLessonData) ==
  /\ level' = nextLessonData.nextLevel
  /\ lesson' = nextLessonData
  /\ isLoading' = FALSE
  /\ request' = NoRequest
  /\ CanvasRender
  /\ UNCHANGED <<history, keyMastery, activeKey, isTimerRunning, pendingTimers,
                 mode, studyVars, now, lastTarget>>
  /\ attempt' = FreshAttempt
  /\ PersistenceEffects

\* generateAdaptiveLesson: the collaborator answered with a parsable lesson
LessonGenerated(response) ==
  /\ request.kind = "adaptive" /\ request.origin = "complete"
  /\ ApplyLesson(response)
  /\ last' = Observed("lesson", <<>>, FALSE, NoKey, FALSE)

\* variant: the failure is not caught, handleSessionComplete ends at its await
LessonFailedThrows ==
  /\ request.kind = "adaptive" /\ request.origin = "complete"
  /\ request' = NoRequest
  /\ UNCHANGED <<level, history, keyMastery, lesson, isLoading, activeKey,
                 isTimerRunning, pendingTimers, canvasVars, mode, storageVars, studyVars, now,
                 attempt, lastTarget>>
  /\ last' = Observed("fallback", <<>>, FALSE, NoKey, FALSE)

\* generateAdaptiveLesson: transport error, empty text or unparsable text
LessonFailed ==
  /\ request.kind = "adaptive" /\ request.origin = "complete"
  /\ ApplyLesson(FallbackLesson(request.currentLevel, request.targetText))
  /\ last' = Observed("fallback", <<>>, FALSE, NoKey, FALSE)

\* variant: the startup lesson also sets the level
ApplyStartupLessonSetsLevel(newLesson) ==
  /\ lesson' = newLesson
  /\ level' = newLesson.nextLevel
  /\ isLoading' = FALSE
  /\ request' = NoRequest
  /\ CanvasRender
  /\ UNCHANGED <<history, keyMastery, activeKey, isTimerRunning,
                 pendingTimers, mode, studyVars, now, lastTarget>>
  /\ attempt' = FreshAttempt
  /\ PersistenceEffects

\* "Initialize Lesson" effect, history not empty, after its await: only the
\* lesson is set, the level stays
ApplyStartupLesson(newLesson) ==
  /\ lesson' = newLesson
  /\ isLoading' = FALSE
  /\ request' = NoRequest
  /\ CanvasRender
  /\ UNCHANGED <<level, history, keyMastery, activeKey, isTimerRunning,
                 pendingTimers, mode, storageVars, studyVars, now, lastTarget>>
  /\ attempt' = FreshAttempt

\* the startup call of generateAdaptiveLesson is answered with a lesson
StartupLessonGenerated(response) ==
  /\ request.kind = "adaptive" /\ request.origin = "startup"
  /\ ApplyStartupLesson(response)
  /\ last' = Observed("lesson", <<>>, FALSE, NoKey, FALSE)

\* the startup call of generateAdaptiveLesson fails
StartupLessonFailed ==
  /\ request.kind = "adaptive" /\ request.origin = "startup"
  /\ ApplyStartupLesson(FallbackLesson(request.currentLevel, request.targetText))
  /\ last' = Observed("fallback", <<>>, FALSE, NoKey, FALSE)

\* variant: a timer that fires while the next lesson loads is dropped
KeyRevertDropped ==
  /\ pendingTimers > 0
  /\ activeKey' = IF isLoading THEN activeKey ELSE NoKey
  /\ pendingTimers' = pendingTimers - 1
  /\ UNCHANGED <<level, history, keyMastery, lesson, isLoading, isTimerRunning,
                 request, canvasVars, mode, storageVars, studyVars, now, obsVars>>

\* setTimeout(() => setActiveKey(null), 150) of handleCharTyped fires; the
\* delays are equal, so the timers fire in the order they were set and the
\* one that fires is the oldest pending
KeyRevert ==
  /\ pendingTimers > 0
  /\ activeKey' = NoKey
  /\ pendingTimers' = pendingTimers - 1
  /\ UNCHANGED <<level, history, keyMastery, lesson, isLoading, isTimerRunning,
                 request, canvasVars, mode, storageVars, studyVars, now, obsVars>>

\* StudyTimer: the interval of the tick effect fires; the effect sets the
\* interval up while isRunning (App's isTimerRunning) is true and clears it
\* when it turns false
Tick ==
  /\ isTimerRunning
  /\ elapsedSeconds < MaxElapsed
  /\ elapsedSeconds' = elapsedSeconds + 1
  /\ storedElapsed' = elapsedSeconds'
  /\ storedDate' = today
  /\ tickedToday' = tickedToday + 1
  /\ UNCHANGED <<targetMinutes, lastConfigDate, storedTarget, storedConfigDate,
                 today, appVars, mode, storageVars, canvasVars, now, obsVars>>

\* toggleMode: click on the theme button
toggleMode ==
  /\ mode' = IF mode = SIANG THEN MALAM ELSE SIANG
  /\ UNCHANGED <<appVars, storageVars, canvasVars, studyVars, now, obsVars>>

\* variant: the counter found in storage is kept whatever its date
TimerLoadKeepsElapsed(savedElapsed) ==
  /\ targetMinutes' = IF storedTarget # Absent THEN storedTarget
                      ELSE DefaultTargetMinutes
  /\ lastConfigDate' = storedConfigDate
  /\ elapsedSeconds' = IF savedElapsed # Absent THEN savedElapsed ELSE 0
  /\ storedElapsed' = savedElapsed
  /\ storedDate' = today
  /\ UNCHANGED <<storedTarget, storedConfigDate>>

\* the load effect of StudyTimer on mount; savedElapsed is the item
\* study_timer_elapsed as the effect finds it
TimerLoad(savedElapsed) ==
  /\ targetMinutes' = IF storedTarget # Absent THEN storedTarget
                      ELSE DefaultTargetMinutes
  /\ lastConfigDate' = storedConfigDate
  /\ IF storedDate = today
     THEN /\ elapsedSeconds' = IF savedElapsed # Absent THEN savedElapsed ELSE 0
          /\ storedElapsed' = savedElapsed
          /\ storedDate' = storedDate
     ELSE /\ elapsedSeconds' = 0
          /\ storedElapsed' = 0
          /\ storedDate' = today
  /\ UNCHANGED <<storedTarget, storedConfigDate>>

\* The page is loaded with the given items in storage: the useState
\* initialisers of App (a missing item has been replaced by its default by
\* the caller), the persistence effects and the "Initialize Lesson" effect up
\* to its await, a canvas not yet rendered, no timer pending, and the load
\* effect of StudyTimer.
PageLoad(savedLevel, savedHistory, savedMastery, savedElapsed) ==
  /\ mode' = SIANG
  /\ level' = savedLevel
  /\ history' = savedHistory
  /\ keyMastery' = savedMastery
  /\ lesson' = NoLesson
  /\ isLoading' = TRUE
  /\ activeKey' = NoKey
  /\ isTimerRunning' = FALSE
  /\ request' = IF Len(savedHistory) > 0
                THEN [ kind |-> "adaptive", origin |-> "startup",
                       currentLevel |-> savedLevel,
                       lastResult |-> savedHistory[Len(savedHistory)],
                       targetText |-> savedHistory[Len(savedHistory)].actualTypedText ]
                ELSE [kind |-> "initial"]
  /\ pendingTimers' = 0
  /\ input' = <<>> /\ startTime' = Null /\ isFinished' = FALSE
  /\ storedLevel' = level'
  /\ storedHistory' = Stringify(history')
  /\ storedMastery' = Stringify(keyMastery')
  /\ TimerLoad(savedElapsed)
  /\ UNCHANGED <<today, tickedToday, now, lastTarget>>
  /\ attempt' = FreshAttempt

\* variant: the mastery map is not read back from storage
ReloadForgetsMastery ==
  /\ PageLoad(storedLevel, Parse(storedHistory), [k \in {} |-> 0], storedElapsed)
  /\ last' = Observed("reload", <<>>, FALSE, NoKey, FALSE)

\* the user reloads the page (or closes and reopens it)
Reload ==
  /\ PageLoad(storedLevel, Parse(storedHistory), Parse(storedMastery), storedElapsed)
  /\ last' = Observed("reload", <<>>, FALSE, NoKey, FALSE)

\* handleResetProgress: click on the reset-progress entry; window.confirm
\* returns confirmed.  Confirmed: the four items are removed and the page is
\* reloaded, so the initialisers find nothing.  Declined: nothing happens.
handleResetProgress(confirmed) ==
  IF confirmed
  THEN /\ PageLoad(PEMULA, <<>>, [k \in {} |-> 0], Absent)
       /\ last' = Observed("progressReset", <<>>, FALSE, NoKey, FALSE)
  ELSE /\ last' = Observed("declined", <<>>, FALSE, NoKey, FALSE)
       /\ UNCHANGED <<appVars, mode, storageVars, canvasVars, studyVars, now,
                      attempt, lastTarget>>

\* variant: the target can be set again on the day it was set
handleSetDurationUnlocked(minutes) ==
  /\ targetMinutes' = minutes
  /\ lastConfigDate' = today
  /\ storedTarget' = minutes
  /\ storedConfigDate' = today
  /\ UNCHANGED <<elapsedSeconds, storedElapsed, storedDate, today, tickedToday,
                 appVars, mode, storageVars, canvasVars, now, attempt, lastTarget>>
  /\ last' = Observed("duration", <<>>, FALSE, NoKey, FALSE)

\* handleSetDuration(minutes): click on one of the duration buttons
handleSetDuration(minutes) ==
  /\ IF lastConfigDate = today
     THEN UNCHANGED <<targetMinutes, lastConfigDate, storedTarget, storedConfigDate>>
     ELSE /\ targetMinutes' = minutes
          /\ lastConfigDate' = today
          /\ storedTarget' = minutes
          /\ storedConfigDate' = today
  /\ UNCHANGED <<elapsedSeconds, storedElapsed, storedDate, today, tickedToday,
                 appVars, mode, storageVars, canvasVars, now, attempt, lastTarget>>
  /\ last' = Observed("duration", <<>>, FALSE, NoKey, FALSE)

\* midnight (UTC) passes: getTodayDate() returns the next date
DayChange ==
  /\ today < MaxDay
  /\ today' = today + 1
  /\ tickedToday' = 0
  /\ UNCHANGED <<timerVars, timerStore, appVars, mode, storageVars, canvasVars,
                 now, attempt, lastTarget>>
  /\ last' = Observed("day", <<>>, FALSE, NoKey, FALSE)

\* time passes, or the wall clock is set
ClockAdvance ==
  /\ \E t \in Clock \ {now} : now' = t
  /\ UNCHANGED <<appVars, canvasVars, mode, storageVars, studyVars, obsVars>>

\* the bounds of Spec: sessions completed, reversion timers pending
WithinBounds(val) ==
  /\ lesson # NoLesson
  /\ Len(val) >= Len(lesson.lessonText) => Len(history) < MaxSessions
  /\ val # <<>> => pendingTimers < MaxTimers

Next ==
  \/ \E val \in Vals : WithinBounds(val) /\ InputChange(val)
  \/ handleReset
  \/ InitialLessonLoaded
  \/ \E response \in Responses : LessonGenerated(response)
  \/ LessonFailed
  \/ KeyRevert
  \/ ClockAdvance

Spec == Init /\ [][Next]_vars

\* the call to the collaborator returns: generateInitialLesson resolves at
\* once, generateAdaptiveLesson resolves with an answer or with the fallback
\* once the network call has resolved or rejected
RequestSettles ==
  \/ InitialLessonLoaded
  \/ \E response \in Responses : LessonGenerated(response)
  \/ LessonFailed

\* Spec with every lesson request settling eventually
FairSpec == Spec /\ WF_vars(RequestSettles)

\* --------------------------------------------------------------- ScorerSpec
\* The scorer on passages of up to MaxScoreLen characters.  The first lesson
\* (all 65 characters) has been typed without a mistake in one minute and the
\* collaborator has answered with a passage of n characters, here the first n
\* characters of the drill; the canvas is mounted, nothing or one character
\* (since deleted) has been typed.  The clock reads 7 ms before, 7 ms after
\* or one minute after the recorded start.
ScorerStarts == {Null, 1007}
ScorerClock == {1000, 1014, 61007}
ScorerPassages == {SubSeq(InitialLessonText, 1, n) : n \in 1..MaxScoreLen}

\* a character that differs from c
Mistyped(c) == IF c = "k" THEN "f" ELSE "k"

\* the passage typed with exactly the positions in M wrong
TypedWith(target, M) ==
  [i \in 1..Len(target) |-> IF i \in M THEN Mistyped(target[i]) ELSE target[i]]

\* change events of ScorerSpec: the first character, and the whole passage
\* (pasted, or completed by the last keystroke) with a leading run, a trailing
\* run or a single position wrong, with and without a character too many
ScorerVals(target) ==
  LET n == Len(target)
      wrong == {1..k : k \in 0..n} \cup {k..n : k \in 1..n} \cup {{k} : k \in 1..n}
      whole == {TypedWith(target, M) : M \in wrong}
  IN  {<<target[1]>>} \cup whole \cup {Append(t, "j") : t \in whole}

\* the result of that first session, ScoreResult(drill, drill, 1000, 61000):
\* 65 characters in one minute, no mistake
ScorerFirstResult ==
  [ wpm |-> 13, errorRate |-> 0, accuracy |-> 10000,
    actualTypedText |-> InitialLessonText, timestamp |-> 61000 ]

\* the mastery after it, updateMastery({}, drill, drill): 24 hits of f and of j
ScorerFirstMastery == [k \in {"f", "j"} |-> 48]

ScorerInit ==
  /\ level = PEMULA
  /\ history = <<ScorerFirstResult>>
  /\ keyMastery = ScorerFirstMastery
  /\ \E text \in ScorerPassages :
       lesson = [ tutorMessage |-> TutorGenerated, lessonText |-> text,
                  criticalKeys |-> {}, nextLevel |-> PEMULA ]
  /\ isLoading = FALSE
  /\ activeKey = NoKey
  /\ request = NoRequest
  /\ pendingTimers = 0
  /\ input = <<>>
  /\ startTime \in ScorerStarts
  /\ isTimerRunning = (startTime # Null)
  /\ isFinished = FALSE
  /\ mode = SIANG
  /\ Persisted
  /\ TimerFirstLoad
  /\ now \in ScorerClock
  /\ last = IF startTime = Null
            THEN [ kind |-> "lesson", val |-> <<>>, typingStart |-> FALSE,
                   charTyped |-> NoKey, completed |-> FALSE ]
            ELSE [ kind |-> "input", val |-> <<>>, typingStart |-> FALSE,
                   charTyped |-> NoKey, completed |-> FALSE ]
  /\ attempt = [ entered |-> startTime # Null,
                 starts  |-> IF startTime = Null THEN 0 ELSE 1,
                 emits   |-> 0,
                 since   |-> startTime ]
  /\ lastTarget = InitialLessonText

ScorerNext ==
  /\ CanvasMounted
  /\ \E val \in ScorerVals(lesson.lessonText) : InputChange(val)

ScorerSpec == ScorerInit /\ [][ScorerNext]_vars

\* ---------------------------------------------------------------- ShellSpec
\* The shell over several page loads: Spec without the wall clock, with the
\* theme button, the progress reset, page reloads and the startup request.
\* A change event is taken once the previous highlight has reverted.
ShellBounds(val) ==
  /\ lesson # NoLesson
  /\ Len(val) >= Len(lesson.lessonText) => Len(history) < MaxSessions
  /\ pendingTimers = 0

ShellNext ==
  \/ \E val \in Vals : ShellBounds(val) /\ InputChange(val)
  \/ handleReset
  \/ InitialLessonLoaded
  \/ \E response \in Responses : LessonGenerated(response)
  \/ LessonFailed
  \/ \E response \in Responses : StartupLessonGenerated(response)
  \/ StartupLessonFailed
  \/ KeyRevert
  \/ toggleMode
  \/ \E confirmed \in BOOLEAN : handleResetProgress(confirmed)
  \/ Reload

ShellSpec == Init /\ [][ShellNext]_vars

\* ------------------------------------------------------------ TimingSpec
\* Spec with a clock whose steps give different words-per-minute values:
\* two characters in one second are 24, in two seconds 12
TimingClock == {2000, 3000}

\* time passes
TimePasses ==
  /\ \E t \in TimingClock : t > now /\ now' = t
  /\ UNCHANGED <<appVars, canvasVars, mode, storageVars, studyVars, obsVars>>

TimingNext ==
  \/ \E val \in Vals : WithinBounds(val) /\ InputChange(val)
  \/ handleReset
  \/ InitialLessonLoaded
  \/ \E response \in Responses : LessonGenerated(response)
  \/ LessonFailed
  \/ KeyRevert
  \/ TimePasses

TimingSpec == Init /\ [][TimingNext]_vars

\* ------------------------------------------------------------- StudySpec
\* the study timer over days: typing starts it, it ticks, the date changes,
\* the target is set, the page is reloaded and the progress reset
StudyBounds(val) ==
  /\ lesson # NoLesson
  /\ ~Completes(val, lesson.lessonText)
  /\ pendingTimers = 0

StudyNext ==
  \/ \E val \in Vals : StudyBounds(val) /\ InputChange(val)
  \/ InitialLessonLoaded
  \/ KeyRevert
  \/ tickedToday < MaxElapsed /\ Tick
  \/ DayChange
  \/ \E minutes \in Durations : handleSetDuration(minutes)
  \/ Reload
  \/ \E confirmed \in BOOLEAN : handleResetProgress(confirmed)

StudySpec == Init /\ [][StudyNext]_vars

\* ---------------------------------------------------------------- TimerSpec
\* Spec together with the study timer's one-second tick
TimerNext ==
  \/ Next
  \/ Tick

TimerSpec == Init /\ [][TimerNext]_vars

\* -------------------------------------------------------------- MasterySpec
\* The mastery tracker over sessions that start from a stored mastery map.
\* The application has been reloaded with a stored history (only its latest
\* result is kept here; MasterySpec reads none) and a stored mastery map, and
\* the startup lesson, a passage of up to MaxPassage characters over letters
\* of both cases, a digit, a blank and a full stop, is on the canvas.  Every
\* session is typed in one change event; the collaborator is unreachable, so
\* the passage is repeated.  The highlight timers do not touch the mastery
\* and are left pending.
MasteryChars == {"f", "F", "1", " ", "."}
MasteryPassages == StringsUpTo(MasteryChars, MaxPassage) \ {<<>>}

\* stored mastery maps: empty, near the upper and the lower clamp, and with a
\* key that no passage contains
MasteryStarts ==
  { [k \in {} |-> 0],
    [k \in {"f", "1"} |-> IF k = "f" THEN 99 ELSE 3],
    [k \in {"f", "1"} |-> IF k = "f" THEN 100 ELSE 4],
    [k \in {"f", "1", "k"} |-> IF k = "f" THEN 3 ELSE IF k = "1" THEN 98 ELSE 50] }

\* a wrong character for c: the other case of a letter, a letter otherwise
Slip(c) == IF c = "f" THEN "F" ELSE "f"

\* the passage typed with exactly the positions in M wrong
MasteryTyped(target, M) ==
  [i \in 1..Len(target) |-> IF i \in M THEN Slip(target[i]) ELSE target[i]]

\* change events of MasterySpec: the whole passage with any set of positions
\* wrong, or right with a character too many
MasteryVals(target) ==
  {MasteryTyped(target, M) : M \in SUBSET (1..Len(target))}
    \cup {Append(target, "f")}

MasteryInit ==
  /\ level = PEMULA
  /\ history = <<ScorerFirstResult>>
  /\ keyMastery \in MasteryStarts
  /\ \E text \in MasteryPassages :
       lesson = [ tutorMessage |-> TutorGenerated, lessonText |-> text,
                  criticalKeys |-> {}, nextLevel |-> PEMULA ]
  /\ isLoading = FALSE
  /\ activeKey = NoKey
  /\ isTimerRunning = FALSE
  /\ request = NoRequest
  /\ pendingTimers = 0
  /\ input = <<>>
  /\ startTime = Null
  /\ isFinished = FALSE
  /\ mode = SIANG
  /\ Persisted
  /\ TimerFirstLoad
  /\ now = 61000
  /\ last = [ kind |-> "lesson", val |-> <<>>, typingStart |-> FALSE,
              charTyped |-> NoKey, completed |-> FALSE ]
  /\ attempt = FreshAttempt
  /\ lastTarget = InitialLessonText

MasteryNext ==
  \/ /\ CanvasMounted
     /\ Len(history) <= MaxSessions + 1
     /\ \E val \in MasteryVals(lesson.lessonText) : InputChange(val)
  \/ LessonFailed

MasterySpec == MasteryInit /\ [][MasteryNext]_vars

\* -------------------------------------------------------------- StartupSpec
\* The application is opened again after a run in which the first lesson was
\* completed once: level, history and key mastery come from storage, the
\* "Initialize Lesson" effect has called generateAdaptiveLesson with the last
\* result and its typed text.  The run is followed up to, and not including,
\* the next completion.
StartupTyped == {val \in Vals : Completes(val, generateInitialLesson.lessonText)}

StartupInit ==
  /\ level \in DifficultyLevel
  /\ \E typed \in StartupTyped :
       /\ history = <<ScoreResult(generateInitialLesson.lessonText, typed, 1000, 61000)>>
       /\ keyMastery = updateMastery([k \in {} |-> 0],
                                     generateInitialLesson.lessonText, typed)
  /\ lesson = NoLesson
  /\ isLoading = TRUE
  /\ activeKey = NoKey
  /\ isTimerRunning = FALSE
  /\ request = [ kind |-> "adaptive", origin |-> "startup",
                 currentLevel |-> level, lastResult |-> history[Len(history)],
                 targetText |-> history[Len(history)].actualTypedText ]
  /\ pendingTimers = 0
  /\ input = <<>>
  /\ startTime = Null
  /\ isFinished = FALSE
  /\ mode = SIANG
  /\ Persisted
  /\ TimerFirstLoad
  /\ now \in Clock
  /\ last = [ kind |-> "none", val |-> <<>>, typingStart |-> FALSE,
              charTyped |-> NoKey, completed |-> FALSE ]
  /\ attempt = FreshAttempt
  /\ lastTarget = generateInitialLesson.lessonText

\* the bounds of StartupSpec: no completion, reversion timers pending
StartupBounds(val) ==
  /\ lesson # NoLesson
  /\ ~Completes(val, lesson.lessonText)
  /\ val # <<>> => pendingTimers < MaxTimers

StartupNext ==
  \/ \E response \in Responses : StartupLessonGenerated(response)
  \/ StartupLessonFailed
  \/ \E val \in Vals : StartupBounds(val) /\ InputChange(val)
  \/ handleReset
  \/ KeyRevert
  \/ ClockAdvance

StartupSpec == StartupInit /\ [][StartupNext]_vars

\* ================================================================== claims
\* the latest result, the passage it was scored against and the text typed
LastResult == history[Len(history)]
Scored == request.kind = "adaptive" /\ request.origin = "complete"
ScoredTarget == request.targetText
\* the step is a canvas event of the given kind
CanvasEvent(kind) == last' # last /\ last'.kind = kind
\* the step applies a lesson (the request in flight is answered)
LessonLoadStep == request # NoRequest /\ request' = NoRequest
\* e is the hundredths value nearest to 10000 * num / den, halves up
NearestHundredth(e, num, den) ==
  2 * den * e - den <= 20000 * num /\ 20000 * num < 2 * den * e + den
Mismatches(target, typed) ==
  {i \in 1..Len(target) : i > Len(typed) \/ typed[i] # target[i]}

\* C1: every SessionResult has accuracy + errorRate = 100 (10000 hundredths).
\* Fails: a passage of 32 characters with one mistake is stored as 3.13 and
\* 96.88.
C1_SumIsHundred ==
  \A i \in 1..Len(history) : history[i].accuracy + history[i].errorRate = 10000

\* C2: an input change completes the session (one result is emitted) if and
\* only if its value is at least as long as the passage, and a result is only
\* ever emitted by such an input change, for a typed text not shorter than
\* the passage.
C2_CompletesIffFull ==
  [][ /\ CanvasEvent("input") =>
           ( Len(history') = Len(history) + 1
               <=> Len(last'.val) >= Len(lesson.lessonText) )
      /\ Len(history') # Len(history) =>
           /\ CanvasEvent("input")
           /\ Len(history') = Len(history) + 1
           /\ Len(history'[Len(history')].actualTypedText) >= Len(lesson.lessonText)
    ]_vars

C2_Witness ==
  /\ Scored
  /\ last.kind = "input" /\ last.completed
  /\ Len(last.val) = Len(ScoredTarget)

\* C3: in every attempt in which a character has been entered, the
\* Ready->Active transition (start timestamp, onTypingStart) has fired exactly
\* once.  Fails: a first change event that carries two characters fires
\* nothing.
C3_StartsOncePerAttempt == attempt.entered => attempt.starts = 1

\* C4: while the passage is finished no step but the lesson load changes the
\* typed buffer, reports a key (schedules a highlight) or emits a result, and
\* no passage emits more than one result.
C4_FinishedIsFrozen ==
  [][ /\ (isFinished /\ ~LessonLoadStep) =>
           /\ input' = input
           /\ history' = history
           /\ attempt'.emits = attempt.emits
           /\ pendingTimers' <= pendingTimers
           /\ activeKey' \in {activeKey, NoKey}
      /\ attempt'.emits <= 1
    ]_vars

C4_Witness ==
  /\ isFinished /\ Scored
  /\ attempt.emits = 1
  /\ now # LastResult.timestamp
  /\ pendingTimers = 0

\* C5: a manual reset empties the typed buffer, clears the start timestamp,
\* leaves the canvas mounted and unfinished (Ready), changes neither history,
\* mastery, level nor lesson, and emits no result.
C5_ResetReturnsToReady ==
  [][ CanvasEvent("reset") =>
        /\ input' = <<>> /\ startTime' = Null /\ ~isFinished' /\ CanvasMounted'
        /\ UNCHANGED <<history, keyMastery, level, lesson>>
        /\ attempt'.emits = attempt.emits
        /\ request' = request
    ]_vars

C5_Witness ==
  /\ last.kind = "reset"
  /\ isTimerRunning
  /\ CanvasMounted /\ input = <<>> /\ startTime = Null

C7_LessonLoadIsReady ==
  [][ (LessonLoadStep /\ Len(history) >= 1) =>
        CanvasMounted' /\ input' = <<>> /\ startTime' = Null /\ ~isFinished'
    ]_vars

C7_Witness ==
  /\ Len(history) >= 1
  /\ lesson.tutorMessage = TutorApology
  /\ CanvasMounted /\ input = <<>> /\ startTime = Null /\ ~isFinished

\* C8: the stored errorRate is the nearest hundredth of 100 * m / len(target),
\* m the number of positions of the target where the typed text differs;
\* what is typed past the target does not count and is kept in
\* actualTypedText.
C8_ErrorRateCountsTargetPositions ==
  Scored =>
    /\ NearestHundredth(LastResult.errorRate,
                        Cardinality(Mismatches(ScoredTarget, last.val)),
                        Len(ScoredTarget))
    /\ LastResult.actualTypedText = last.val

C8_Witness ==
  /\ Scored
  /\ Len(ScoredTarget) = 3
  /\ Len(LastResult.actualTypedText) = 4
  /\ LastResult.errorRate = 3333

\* C9: a typed text equal to the passage scores errorRate 0 and accuracy 100;
\* a typed text that differs at every position of the passage scores
\* errorRate 100 and accuracy 0.
C9_AllRightAllWrong ==
  Scored =>
    /\ last.val = ScoredTarget =>
         LastResult.errorRate = 0 /\ LastResult.accuracy = 10000
    /\ Mismatches(ScoredTarget, last.val) = 1..Len(ScoredTarget) =>
         LastResult.errorRate = 10000 /\ LastResult.accuracy = 0

C9_Witness ==
  /\ Scored
  /\ Len(ScoredTarget) >= 2
  /\ Len(last.val) > Len(ScoredTarget)
  /\ Mismatches(ScoredTarget, last.val) = 1..Len(ScoredTarget)
  /\ LastResult.errorRate = 10000

\* C10: the wpm of a result is a natural number: with a start timestamp
\* recorded before the event and the clock past it, the integer nearest to
\* (len(typed) / 5) / minutes (halves up); 0 otherwise.
C10_WpmRounded ==
  [][ Len(history') = Len(history) + 1 =>
        LET r  == history'[Len(history')]
            n  == Len(r.actualTypedText)
            ms == now - startTime
        IN  /\ r.wpm \in Nat
            /\ IF startTime # Null /\ ms > 0
               THEN /\ 2 * CharsPerWord * ms * r.wpm <= 2 * 60000 * n + CharsPerWord * ms
                    /\ 2 * 60000 * n + CharsPerWord * ms < 2 * CharsPerWord * ms * (r.wpm + 1)
               ELSE r.wpm = 0
    ]_vars

C10_Witness ==
  /\ Scored
  /\ LastResult.wpm > 0
  /\ startTime # Null /\ LastResult.timestamp > startTime
  /\ (2 * 60000 * Len(LastResult.actualTypedText))
       % (2 * CharsPerWord * (LastResult.timestamp - startTime))
       >= CharsPerWord * (LastResult.timestamp - startTime)

\* the step completes a session; its passage and the text typed
CompletionStep == Len(history') = Len(history) + 1
StepTarget == lesson.lessonText
StepTyped == history'[Len(history')].actualTypedText
\* characters that are neither letters nor digits
Punctuation == {" ", "."}
\* the keys a session on target scores: the lowercase forms of the letters
\* and digits at the compared indices
TrackedKeys(target, typed) ==
  {toLowerCase(target[i]) : i \in 1..Min(Len(target), Len(typed))} \ Punctuation
MasteryInRange == \A k \in DOMAIN keyMastery : keyMastery[k] \in 0..100
\* the score of key c after the compared indices i, i+1, ... in that order
RECURSIVE Replay(_, _, _, _, _)
Replay(score, c, target, typed, i) ==
  IF i > Len(target) \/ i > Len(typed) THEN score
  ELSE Replay(IF toLowerCase(target[i]) # c THEN score
              ELSE IF typed[i] = target[i]
                   THEN (IF score + 2 > 100 THEN 100 ELSE score + 2)
                   ELSE (IF score - 5 < 0 THEN 0 ELSE score - 5),
              c, target, typed, i + 1)

\* C11: starting from stored scores in 0..100, every score stays in 0..100
\* over any sequence of completed sessions; a key that occurs once in the
\* passage goes from 99 or 100 to 100 on a correct hit and from a score below
\* 5 to 0 on an incorrect one.
C11_ScoresStayInRange ==
  /\ []MasteryInRange
  /\ [][ CompletionStep =>
           \A i \in 1..Len(StepTarget) :
             LET c == toLowerCase(StepTarget[i])
                 once == \A j \in 1..Len(StepTarget) :
                           toLowerCase(StepTarget[j]) = c => j = i
             IN  (c \notin Punctuation /\ once) =>
                   /\ (StepTyped[i] = StepTarget[i] /\ ScoreOf(keyMastery, c) >= 99)
                        => keyMastery'[c] = 100
                   /\ (StepTyped[i] # StepTarget[i] /\ ScoreOf(keyMastery, c) < 5)
                        => keyMastery'[c] = 0
       ]_vars

C11_Witness ==
  /\ Scored
  /\ ScoredTarget = <<"f", "1">>
  /\ LastResult.actualTypedText = <<"f", "f">>
  /\ keyMastery["f"] = 100 /\ keyMastery["1"] = 0

\* C12: a completed session replaces the score of every letter or digit of
\* the passage (lowercased; 0 if absent) by the result of going through the
\* indices below min(len(target), len(typed)) in order, adding 2 up to 100
\* where the typed character equals the target character (case-sensitive)
\* and taking off 5 down to 0 where it does not.
C12_MasteryReplaysPositions ==
  [][ CompletionStep =>
        \A c \in TrackedKeys(StepTarget, StepTyped) :
          /\ c \in DOMAIN keyMastery'
          /\ keyMastery'[c] = Replay(ScoreOf(keyMastery, c), c, StepTarget, StepTyped, 1)
    ]_vars

C12_Witness ==
  /\ Scored
  /\ ScoredTarget = <<"F", "f">>
  /\ LastResult.actualTypedText = <<"f", "f">>
  /\ keyMastery["f"] = 97

\* C13: a completed session changes, creates or removes no mastery entry but
\* those of the lowercase forms of the letters and digits at the compared
\* indices: blanks and punctuation get no entry, other keys keep their score
\* or stay absent.
C13_OtherKeysUntouched ==
  [][ CompletionStep =>
        \A k \in (DOMAIN keyMastery \cup DOMAIN keyMastery')
                   \ TrackedKeys(StepTarget, StepTyped) :
          /\ k \in DOMAIN keyMastery /\ k \in DOMAIN keyMastery'
          /\ keyMastery'[k] = keyMastery[k]
    ]_vars

C13_Witness ==
  /\ Scored
  /\ ScoredTarget = <<"f", " ">>
  /\ DOMAIN keyMastery = {"f", "1", "k"}
  /\ keyMastery["k"] = 50 /\ keyMastery["1"] = 98 /\ keyMastery["f"] = 5

\* C14: when the request issued by a completed session fails, the lesson
\* loaded is the fallback: the passage just completed, no critical keys, the
\* level the request was sent with (the level does not move), the apology.
C14_FallbackAfterCompletion ==
  [][ (LessonLoadStep /\ Scored /\ last'.kind = "fallback") =>
        /\ lesson' = [ tutorMessage |-> TutorApology,
                       lessonText   |-> lastTarget,
                       criticalKeys |-> {},
                       nextLevel    |-> request.currentLevel ]
        /\ lesson'.lessonText = lesson.lessonText
        /\ request.currentLevel = level /\ level' = level
    ]_vars

C14_Witness ==
  /\ last.kind = "fallback"
  /\ Len(history) >= 1
  /\ LastResult.actualTypedText # lastTarget
  /\ lesson.lessonText = lastTarget /\ lesson.criticalKeys = {}
  /\ lesson.tutorMessage = TutorApology /\ lesson.nextLevel = level

\* C15: when the request issued at startup (stored history not empty) fails,
\* the fallback lesson repeats the passage of the last completed session.
\* Fails: the startup request carries the text the user typed, so after a
\* session with a mistake the fallback passage is the mistyped text.
C15_StartupFallbackRepeatsPassage ==
  [][ ( /\ LessonLoadStep
        /\ request.kind = "adaptive" /\ request.origin = "startup"
        /\ last'.kind = "fallback" )
      => lesson'.lessonText = lastTarget
    ]_vars

\* the controller is Ready: a passage is on the canvas, nothing typed, no
\* start timestamp, not finished, no request outstanding
Ready ==
  /\ CanvasMounted /\ request = NoRequest
  /\ input = <<>> /\ startTime = Null /\ ~isFinished

\* C16: a lesson request is outstanding exactly while the application is
\* loading, and from its issue until its result is applied the canvas is not
\* mounted: no step accepts input (buffer, start timestamp, highlight),
\* completes a session or replaces the request by another one.
C16_SingleRequest ==
  /\ [](request # NoRequest <=> isLoading)
  /\ [][ request # NoRequest =>
           \/ request' = NoRequest /\ ~isLoading' /\ lesson' # NoLesson
           \/ /\ request' = request /\ isLoading' /\ ~CanvasMounted'
              /\ UNCHANGED <<input, startTime, isFinished, history, keyMastery>>
              /\ pendingTimers' <= pendingTimers
              /\ last'.kind # "input" \/ last' = last
       ]_vars

C16_Witness ==
  /\ request.kind = "adaptive"
  /\ ~CanvasMounted /\ lesson # NoLesson
  /\ last.kind = "input" /\ last.completed
  /\ activeKey = NoKey /\ pendingTimers = 0

\* C17: whenever the application is loading or the passage is finished (at
\* startup and after every completion), it eventually is Ready again with a
\* lesson loaded, whether the request succeeds or fails, provided the
\* request settles.
C17_EventuallyReady == (isLoading \/ isFinished) ~> Ready

C17_Witness ==
  /\ Ready
  /\ last.kind = "fallback"
  /\ Len(history) >= 1

\* the session is Active: started and not finished
Active == CanvasMounted /\ startTime # Null /\ ~isFinished

\* C18: the study-time tick counts a second only while the session is
\* Active.  Fails: a manual reset returns the controller to Ready and leaves
\* isTimerRunning set, so the tick goes on counting.
C18_TickOnlyWhileActive ==
  [][ elapsedSeconds' # elapsedSeconds => Active ]_vars

\* C19: the highlight of the latest keystroke stays until that keystroke's
\* own timer fires: the timers fire in the order set, so while any timer is
\* pending the latest keystroke's is, and a key is highlighted.  Fails: the
\* timer of an earlier keystroke clears the highlight of a later one.
C19_LatestHighlightStays == pendingTimers > 0 => activeKey # NoKey

\* C20: when no reversion timer is pending no key is highlighted, whatever
\* the interleaving of keystrokes, timers, completions and lesson loads.
C20_NoTimersNoHighlight == pendingTimers = 0 => activeKey = NoKey

C20_Witness ==
  /\ pendingTimers = 0 /\ activeKey = NoKey
  /\ Len(history) >= 1
  /\ CanvasMounted /\ last.kind = "input" /\ last.charTyped # NoKey

\* the step applies the lesson of a completed session's request
CompletedLessonStep == LessonLoadStep /\ Scored

\* C21 as claimed: the level changes only in the step that applies the
\* lesson response of a completed session.  Fails: the confirmed progress
\* reset sets it back to PEMULA.
C21_TierOnlyByLessonResponse ==
  [][ level' # level => CompletedLessonStep ]_vars

\* C21 as amended: the level changes only in the step that applies the lesson
\* response of a completed session, where it becomes the response's nextLevel
\* (a failed request leaves it), or in the confirmed progress reset, where it
\* becomes PEMULA; keystrokes, manual reset, theme button, reload and the
\* startup lesson leave it.
C21_TierByLessonResponseOrProgressReset ==
  [][ /\ CompletedLessonStep => level' = lesson'.nextLevel
      /\ (CompletedLessonStep /\ last'.kind = "fallback") => level' = level
      /\ level' # level =>
            \/ CompletedLessonStep /\ last'.kind = "lesson"
            \/ last'.kind = "progressReset" /\ last' # last /\ level' = PEMULA
    ]_vars

C21_Witness ==
  /\ CanvasMounted
  /\ last.kind = "lesson" /\ Len(history) >= 1
  /\ level = MENENGAH /\ lesson.nextLevel # level

\* C22: the mastery map changes only in the step that completes a session
\* or in the confirmed progress reset (where it becomes empty); keystrokes,
\* manual reset, lesson loads, failed requests, a declined confirmation and
\* a page reload leave it as it is.
C22_MasteryOnlyByCompletionOrProgressReset ==
  [][ /\ keyMastery' # keyMastery =>
            \/ CanvasEvent("input") /\ last'.completed /\ CompletionStep
            \/ last'.kind = "progressReset" /\ last' # last /\ DOMAIN keyMastery' = {}
      /\ last'.kind \in {"reload", "declined", "lesson", "fallback", "reset"}
            => keyMastery' = keyMastery
    ]_vars

C22_Witness ==
  /\ last.kind = "reload"
  /\ Len(history) >= 1
  /\ DOMAIN keyMastery # {}

\* C27: every loaded lesson has a non-empty passage: the collaborator's
\* lessons are non-empty here, the fallback after a completed session repeats
\* the passage just typed, and the startup fallback repeats the typed text of
\* the last stored result, which is at least as long as its passage.
C27_LoadedPassageNonEmpty ==
  lesson # NoLesson => Len(lesson.lessonText) >= 1

C27_Witness ==
  /\ CanvasMounted
  /\ last.kind = "fallback"
  /\ Len(history) >= 1
  /\ lesson.lessonText = LastResult.actualTypedText
  /\ lesson.lessonText = <<"j", "j">>

\* C28: the stored app_level, app_history and app_key_mastery equal the
\* level, history and mastery map in memory at every point, and a page
\* reload brings back exactly these values.
C28_StorageMatchesState ==
  /\ [](/\ storedLevel = level
        /\ Parse(storedHistory) = history
        /\ Parse(storedMastery) = keyMastery)
  /\ [][ last'.kind = "reload" =>
            /\ level' = level
            /\ history' = history
            /\ keyMastery' = keyMastery ]_vars

C28_Witness ==
  /\ last.kind = "reload"
  /\ Len(history) >= 1
  /\ level = MENENGAH
  /\ Parse(storedHistory) = history
  /\ DOMAIN Parse(storedMastery) # {}

\* C24 as claimed: every input change accepted before the passage is
\* finished, insertion or deletion, reports a character and sets activeKey
\* to it.  Fails: a deletion that empties the buffer reports nothing.
C24_EveryChangeReports ==
  [][ (CanvasEvent("input") /\ ~isFinished) =>
        /\ last'.charTyped # NoKey
        /\ activeKey' = last'.charTyped ]_vars

\* C24 as amended: every input change accepted before the passage is
\* finished that leaves the buffer non-empty reports the last character of
\* the new buffer and sets activeKey to it; a change that empties the buffer
\* reports nothing and leaves activeKey; nothing is reported once Finished.
C24_NonEmptyChangeReportsLast ==
  [][ /\ (CanvasEvent("input") /\ ~isFinished) =>
            /\ input' = last'.val
            /\ IF input' = <<>>
               THEN last'.charTyped = NoKey /\ activeKey' = activeKey
               ELSE /\ last'.charTyped = input'[Len(input')]
                    /\ activeKey' = input'[Len(input')]
      /\ isFinished => ~(CanvasEvent("input") /\ last'.charTyped # NoKey)
    ]_vars

C24_Witness ==
  /\ Active
  /\ last.kind = "input" /\ last.val = <<>> /\ last.charTyped = NoKey
  /\ input = <<>>
  /\ attempt.entered

\* the time the completing event's score has to count from: none when the
\* completing event is the first of the attempt to enter a character
ElapsedOfAttempt ==
  IF attempt.since = Null THEN 0 ELSE now - attempt.since

\* w is the words-per-minute value for a typed length and an elapsed time
\* in milliseconds: the integer nearest to (len / 5) / (ms / 60000), or 0
\* when no time has elapsed
WpmIs(w, len, ms) ==
  IF ms > 0
  THEN 10 * ms * w - 5 * ms <= 120000 * len /\ 120000 * len < 10 * ms * w + 5 * ms
  ELSE w = 0

C26_UnfinishedIsShorter ==
  /\ []((lesson # NoLesson /\ ~isFinished) => Len(input) < Len(lesson.lessonText))
  /\ [][ (isFinished /\ ~isFinished') => LessonLoadStep ]_vars

C26_Witness ==
  /\ Active
  /\ Len(input) = Len(lesson.lessonText) - 1
  /\ Len(input) >= 1

\* the step is a page load of the given kind
PageLoadStep(kind) == last' # last /\ last'.kind = kind

\* C23: when the study timer loads, the elapsed counter is 0 if the stored
\* date differs from today, and the stored date and counter are rewritten to
\* today and 0; if the stored date is today the counter is the stored elapsed
\* value (0 when the progress reset has removed it) and storage is left.
C23_TimerLoadByDate ==
  [][ /\ PageLoadStep("reload") =>
            IF storedDate = today
            THEN /\ elapsedSeconds' = IF storedElapsed = Absent THEN 0 ELSE storedElapsed
                 /\ storedElapsed' = storedElapsed /\ storedDate' = storedDate
            ELSE /\ elapsedSeconds' = 0
                 /\ storedElapsed' = 0 /\ storedDate' = today
      /\ PageLoadStep("progressReset") =>
            /\ elapsedSeconds' = 0
            /\ storedDate' = today
            /\ storedElapsed' = IF storedDate = today THEN Absent ELSE 0
    ]_vars

C23_Witness ==
  /\ last.kind = "reload"
  /\ today = 2 /\ storedDate = 2
  /\ elapsedSeconds = 0 /\ storedElapsed = 0

\* the step is a click on a duration button
DurationStep == last' # last /\ last'.kind = "duration"

\* C29: the target is set at most once per date: the config date in memory
\* always equals the stored one and lies on or before today; a click on a
\* duration button on the date already stored changes neither target, stored
\* target nor config date; on a later date it sets them; and nothing else
\* changes them.
C29_TargetOncePerDay ==
  /\ [](lastConfigDate = storedConfigDate /\ storedConfigDate <= today)
  /\ [][ /\ DurationStep =>
              IF storedConfigDate = today
              THEN UNCHANGED <<targetMinutes, storedTarget, storedConfigDate>>
              ELSE /\ targetMinutes' \in {30, 45, 60}
                   /\ storedTarget' = targetMinutes'
                   /\ storedConfigDate' = today
        /\ ~DurationStep =>
              UNCHANGED <<targetMinutes, storedTarget, storedConfigDate>>
      ]_vars

C29_Witness ==
  /\ last.kind = "duration"
  /\ today = 2 /\ storedConfigDate = 2
  /\ targetMinutes = 60 /\ storedTarget = 60

\* C30: whenever the stored date is today, the stored elapsed value counts
\* at most the seconds ticked today.  Fails: a tick after midnight stores
\* the new date with the count that began the day before.
C30_StoredPairIsOneDay ==
  storedDate = today => storedElapsed <= tickedToday

====
